---- MODULE Spec2Model ----
(***************************************************************************)
(* Model of the zilliqa-rs credential pipeline (src/crypto/util.rs) and of *)
(* the wallet (src/signers/wallet.rs).                                     *)
(*                                                                         *)
(* Strings are sequences of one-character strings, byte strings are        *)
(* sequences of 0..255.  Option<T> is a sequence of length 0 (None) or 1   *)
(* (Some).  Result<T,E> is a record with the field ok.                     *)
(***************************************************************************)
EXTENDS Integers, Sequences, FiniteSets, TLC

VARIABLES
  accounts,          \* Wallet.accounts : HashMap<String, Account>
  default_account,   \* Wallet.default_account : Option<Account>
  pc,                \* position of the sign_transaction future
  tx,                \* the Transaction owned by the running sign_transaction
  account,           \* the account sign_transaction resolved (a borrow)
  call,              \* record of the running / last finished operation
  input,             \* argument of the last crypto::util function applied
  output             \* what that function returned

vars ==
  <<accounts, default_account, pc, tx, account, call, input, output>>

------------------------------------------------------------------------------
(* Option and Result *)

None ==
  <<>>

Some(x) ==
  <<x>>

is_some(o) ==
  Len(o) = 1

is_none(o) ==
  Len(o) = 0

unwrap(o) ==
  o[1]

Ok(v) ==
  [ok |-> TRUE, val |-> v]

Err(kind, arg) ==
  [ok |-> FALSE, kind |-> kind, arg |-> arg]

------------------------------------------------------------------------------
(* Characters and strings *)

Digits ==
  <<"0","1","2","3","4","5","6","7","8","9">>

LowerHex ==
  <<"a","b","c","d","e","f">>

UpperHex ==
  <<"A","B","C","D","E","F">>

LowerAlpha ==
  <<"a","b","c","d","e","f","x","z">>

UpperAlpha ==
  <<"A","B","C","D","E","F","X","Z">>

Range(s) ==
  { s[i] : i \in DOMAIN s }

IndexOf(s, c) ==
  CHOOSE i \in DOMAIN s : s[i] = c

is_ascii_digit(c) ==
  c \in Range(Digits)

is_ascii_hexdigit(c) ==
  c \in Range(Digits) \cup Range(LowerHex) \cup Range(UpperHex)

to_ascii_uppercase(c) ==
  IF c \in Range(LowerAlpha) THEN UpperAlpha[IndexOf(LowerAlpha, c)] ELSE c

to_ascii_lowercase(c) ==
  IF c \in Range(UpperAlpha) THEN LowerAlpha[IndexOf(UpperAlpha, c)] ELSE c

to_lowercase(s) ==
  [i \in DOMAIN s |-> to_ascii_lowercase(s[i])]

Upper(s) ==
  [i \in DOMAIN s |-> to_ascii_uppercase(s[i])]

With0x(s) ==
  <<"0", "x">> \o s

RECURSIVE replace_0x(_)
replace_0x(s) ==
  IF Len(s) < 2 THEN s
  ELSE IF s[1] = "0" /\ s[2] = "x" THEN replace_0x(SubSeq(s, 3, Len(s)))
  ELSE <<s[1]>> \o replace_0x(Tail(s))

------------------------------------------------------------------------------
(* The hex codec *)

HexVal(c) ==
  IF c \in Range(Digits) THEN IndexOf(Digits, c) - 1
  ELSE IF c \in Range(LowerHex) THEN IndexOf(LowerHex, c) + 9
  ELSE IndexOf(UpperHex, c) + 9

HexChar(n) ==
  IF n < 10 THEN Digits[n + 1] ELSE LowerHex[n - 9]

hex_decode(s) ==
  IF Len(s) % 2 # 0 THEN Err("FromHexError", "OddLength")
  ELSE IF \E i \in DOMAIN s : ~ is_ascii_hexdigit(s[i])
         THEN Err("FromHexError", "InvalidHexCharacter")
  ELSE Ok([i \in 1 .. (Len(s) \div 2) |->
             16 * HexVal(s[2 * i - 1]) + HexVal(s[2 * i])])

hex_encode(bytes) ==
  [i \in 1 .. (2 * Len(bytes)) |->
     IF i % 2 = 1 THEN HexChar(bytes[(i + 1) \div 2] \div 16)
     ELSE HexChar(bytes[i \div 2] % 16)]

------------------------------------------------------------------------------
(* Concrete keys, and the values SHA-256 takes on them *)

Key1 ==
  <<"d","9","6","e","9","e","b","5","b","7","8","2","a","8","0","e","a","1","5","3","c","9","3","7","f","a","8","3","e","5","9","4","8","4","8","5","f","b","f","c","8","b","7","e","7","c","0","6","9","d","7","b","9","1","4","d","b","c","3","5","0","a","b","a">>

Key2 ==
  <<"0","0","0","0","0","0","0","0","0","0","0","0","0","0","0","0","0","0","0","0","0","0","0","0","0","0","0","0","0","0","0","0","0","0","0","0","0","0","0","0","0","0","0","0","0","0","0","0","0","0","0","0","0","0","0","0","0","0","0","0","0","0","0","1">>

Key3 ==
  <<"e","5","3","d","1","c","3","e","d","a","f","f","c","7","a","7","b","a","b","5","4","1","8","e","b","8","3","6","c","f","7","5","8","1","9","a","8","2","8","7","2","b","4","a","1","a","0","f","1","c","7","f","c","f","5","c","3","e","0","2","0","b","8","9">>

PubKey1 ==
  <<"0","3","b","f","a","d","0","f","0","b","5","3","c","f","f","5","2","1","3","b","5","9","4","7","f","3","d","d","d","6","6","a","c","e","e","8","9","0","6","a","b","a","3","6","1","0","c","1","1","1","9","1","5","a","e","c","c","8","4","0","9","2","e","0","5","2">>

PubKey2 ==
  <<"0","2","7","9","b","e","6","6","7","e","f","9","d","c","b","b","a","c","5","5","a","0","6","2","9","5","c","e","8","7","0","b","0","7","0","2","9","b","f","c","d","b","2","d","c","e","2","8","d","9","5","9","f","2","8","1","5","b","1","6","f","8","1","7","9","8">>

PubKey3 ==
  <<"0","3","d","3","c","9","4","c","3","7","7","f","0","f","b","3","2","9","d","c","5","c","8","5","7","f","7","d","b","d","7","f","6","9","4","e","e","c","f","c","a","3","7","7","d","b","0","7","9","b","6","8","e","f","7","2","8","5","9","0","5","b","a","a","0","b">>

PubKey4 ==
  <<"0","3","1","b","3","8","9","0","3","a","4","3","f","7","f","1","1","4","e","d","4","5","0","0","b","4","e","a","c","7","0","8","3","f","d","e","f","e","c","e","1","c","f","2","9","c","6","3","5","2","8","d","5","6","3","4","4","6","f","9","7","2","c","1","8","0">>

Base1 ==
  <<"1","1","2","2","3","3","4","4","5","5","6","6","7","7","8","8","9","9","0","0","a","a","b","b","c","c","d","d","e","e","f","f","1","1","2","2","3","3","4","4">>

Base2 ==
  <<"0","1","2","3","4","5","6","7","8","9","0","1","2","3","4","5","6","7","8","9","0","1","2","3","4","5","6","7","8","9","0","1","2","3","4","5","6","7","8","9">>

Base3 ==
  <<"f","f","f","f","f","f","f","f","f","f","f","f","f","f","f","f","f","f","f","f","f","f","f","f","f","f","f","f","f","f","f","f","f","f","f","f","f","f","f","f">>

Base4 ==
  <<"d","e","a","d","b","e","e","f","d","e","a","d","b","e","e","f","d","e","a","d","b","e","e","f","d","e","a","d","b","e","e","f","d","e","a","d","b","e","e","f">>

Base5 ==
  <<"a","b","c","d","e","f","a","b","c","d","a","b","c","d","e","f","a","b","c","d","a","b","c","d","e","f","a","b","c","d","a","b","c","d","e","f","a","b","c","d">>

Base6 ==
  <<"a","1","b","2","c","3","d","4","e","5","a","1","b","2","c","3","d","4","e","5","a","1","b","2","c","3","d","4","e","5","a","1","b","2","c","3","d","4","e","5">>

Base7 ==
  <<"f","c","f","c","2","1","9","c","8","6","1","7","1","5","5","f","3","c","3","9","f","c","5","6","5","2","6","5","7","d","7","5","8","1","3","6","4","5","8","5">>

Sha256Table ==
  { << <<"0","3","b","f","a","d","0","f","0","b","5","3","c","f","f","5","2","1","3","b","5","9","4","7","f","3","d","d","d","6","6","a","c","e","e","8","9","0","6","a","b","a","3","6","1","0","c","1","1","1","9","1","5","a","e","c","c","8","4","0","9","2","e","0","5","2">>,
       <<"0","9","d","c","6","6","3","2","0","a","6","b","f","5","d","f","b","5","7","e","a","3","0","9","3","8","1","f","4","0","0","8","5","0","5","e","9","4","0","a","d","7","6","8","1","e","c","3","4","6","8","a","7","1","9","0","6","0","c","a","f","7","9","6">> >>
  , << <<"0","2","7","9","b","e","6","6","7","e","f","9","d","c","b","b","a","c","5","5","a","0","6","2","9","5","c","e","8","7","0","b","0","7","0","2","9","b","f","c","d","b","2","d","c","e","2","8","d","9","5","9","f","2","8","1","5","b","1","6","f","8","1","7","9","8">>,
       <<"0","f","7","1","5","b","a","f","5","d","4","c","2","e","d","3","2","9","7","8","5","c","e","f","2","9","e","5","6","2","f","7","3","4","8","8","c","8","a","2","b","b","9","d","b","c","5","7","0","0","b","3","6","1","d","5","4","b","9","b","0","5","5","4">> >>
  , << <<"0","3","d","3","c","9","4","c","3","7","7","f","0","f","b","3","2","9","d","c","5","c","8","5","7","f","7","d","b","d","7","f","6","9","4","e","e","c","f","c","a","3","7","7","d","b","0","7","9","b","6","8","e","f","7","2","8","5","9","0","5","b","a","a","0","b">>,
       <<"f","d","a","3","3","5","7","7","b","6","0","e","3","7","2","4","6","e","c","0","0","e","f","7","d","9","0","f","2","e","5","3","8","c","e","0","d","f","8","9","c","8","2","7","3","c","a","d","3","b","6","3","e","c","4","4","a","3","c","4","e","d","8","2">> >>
  , << <<"0","3","1","b","3","8","9","0","3","a","4","3","f","7","f","1","1","4","e","d","4","5","0","0","b","4","e","a","c","7","0","8","3","f","d","e","f","e","c","e","1","c","f","2","9","c","6","3","5","2","8","d","5","6","3","4","4","6","f","9","7","2","c","1","8","0">>,
       <<"8","c","2","b","d","4","0","9","9","2","f","a","b","f","6","b","3","5","b","4","f","2","1","b","f","4","8","4","0","f","1","a","8","1","3","a","f","4","3","d","f","e","a","c","e","2","e","a","a","a","b","6","e","a","3","3","6","9","0","b","4","0","e","f">> >>
  , << <<"3","8","1","f","4","0","0","8","5","0","5","e","9","4","0","a","d","7","6","8","1","e","c","3","4","6","8","a","7","1","9","0","6","0","c","a","f","7","9","6">>,
       <<"0","6","6","d","4","9","3","b","c","5","a","3","3","e","9","b","5","f","5","8","f","3","7","0","9","7","6","8","f","a","a","e","8","8","5","b","3","c","c","5","0","0","9","c","d","3","2","2","2","1","5","0","8","f","b","2","b","2","d","9","6","2","8","9">> >>
  , << <<"2","9","e","5","6","2","f","7","3","4","8","8","c","8","a","2","b","b","9","d","b","c","5","7","0","0","b","3","6","1","d","5","4","b","9","b","0","5","5","4">>,
       <<"5","6","b","4","4","9","f","1","d","0","3","0","9","1","8","b","c","6","6","5","7","6","4","3","2","2","5","0","7","4","7","c","e","1","e","0","b","5","e","3","d","f","1","0","d","9","d","d","1","d","e","7","a","a","5","0","e","8","5","d","8","1","c","a">> >>
  , << <<"d","9","0","f","2","e","5","3","8","c","e","0","d","f","8","9","c","8","2","7","3","c","a","d","3","b","6","3","e","c","4","4","a","3","c","4","e","d","8","2">>,
       <<"3","6","a","c","c","c","7","c","b","d","8","7","6","2","b","e","c","a","a","8","f","e","3","e","7","9","6","a","0","a","1","a","4","b","5","4","1","1","5","c","3","4","3","d","3","f","5","2","1","a","2","7","4","0","0","c","b","d","5","0","1","c","1","a">> >>
  , << <<"f","4","8","4","0","f","1","a","8","1","3","a","f","4","3","d","f","e","a","c","e","2","e","a","a","a","b","6","e","a","3","3","6","9","0","b","4","0","e","f">>,
       <<"4","1","2","8","0","c","e","a","b","d","0","5","2","3","6","4","b","c","a","0","1","b","1","e","4","f","5","7","8","9","2","f","7","7","a","0","f","3","6","5","c","9","6","7","8","7","e","4","4","e","2","5","0","0","2","c","1","2","8","9","e","2","9","a">> >>
  , << <<"1","1","2","2","3","3","4","4","5","5","6","6","7","7","8","8","9","9","0","0","a","a","b","b","c","c","d","d","e","e","f","f","1","1","2","2","3","3","4","4">>,
       <<"0","c","e","4","2","5","e","d","d","5","c","6","e","f","7","5","c","e","2","1","5","2","d","6","d","6","b","3","d","9","c","d","f","5","d","5","1","d","b","6","f","1","6","4","0","4","3","5","5","6","1","4","d","1","b","3","e","0","3","1","3","9","9","a">> >>
  , << <<"0","1","2","3","4","5","6","7","8","9","0","1","2","3","4","5","6","7","8","9","0","1","2","3","4","5","6","7","8","9","0","1","2","3","4","5","6","7","8","9">>,
       <<"f","3","f","e","0","2","a","0","6","4","f","1","d","c","6","2","5","7","d","e","9","6","c","9","f","1","2","1","1","1","9","a","7","c","9","d","a","e","b","d","6","d","0","7","d","2","a","2","f","d","7","1","c","5","9","1","e","6","c","5","8","f","9","9">> >>
  , << <<"f","f","f","f","f","f","f","f","f","f","f","f","f","f","f","f","f","f","f","f","f","f","f","f","f","f","f","f","f","f","f","f","f","f","f","f","f","f","f","f">>,
       <<"9","a","8","d","c","d","3","f","9","f","f","7","a","a","3","1","1","4","e","1","4","1","f","0","3","c","1","2","9","8","9","d","3","6","3","e","a","8","1","f","d","7","4","c","0","2","e","e","a","6","3","c","5","f","4","1","4","8","9","c","b","1","7","a">> >>
  , << <<"d","e","a","d","b","e","e","f","d","e","a","d","b","e","e","f","d","e","a","d","b","e","e","f","d","e","a","d","b","e","e","f","d","e","a","d","b","e","e","f">>,
       <<"e","7","f","b","7","3","6","f","a","7","e","d","3","f","b","5","5","1","f","d","9","1","6","9","f","e","0","f","0","5","5","f","b","6","1","0","c","6","7","f","0","3","d","5","f","b","3","f","e","3","9","7","9","0","0","7","9","b","f","d","3","e","c","7">> >>
  , << <<"a","b","c","d","e","f","a","b","c","d","a","b","c","d","e","f","a","b","c","d","a","b","c","d","e","f","a","b","c","d","a","b","c","d","e","f","a","b","c","d">>,
       <<"5","3","f","2","4","f","f","b","a","6","0","6","c","6","a","7","4","a","c","a","8","f","4","5","7","e","d","a","3","8","3","6","6","3","6","1","5","9","d","6","7","c","b","6","3","8","9","2","4","0","3","2","c","9","e","c","3","1","1","a","5","1","5","3">> >>
  , << <<"a","1","b","2","c","3","d","4","e","5","a","1","b","2","c","3","d","4","e","5","a","1","b","2","c","3","d","4","e","5","a","1","b","2","c","3","d","4","e","5">>,
       <<"f","2","9","f","5","3","c","c","b","3","6","f","9","4","a","2","5","9","a","9","9","b","6","8","7","e","d","5","3","3","5","d","2","5","8","3","a","c","5","1","9","0","3","b","5","d","7","b","e","d","c","7","b","4","3","1","e","5","a","9","2","8","8","4">> >>
  , << <<"f","c","f","c","2","1","9","c","8","6","1","7","1","5","5","f","3","c","3","9","f","c","5","6","5","2","6","5","7","d","7","5","8","1","3","6","4","5","8","5">>,
       <<"4","5","5","7","4","5","0","c","e","c","d","7","e","b","9","1","0","f","8","f","0","c","0","7","0","1","2","c","2","c","2","4","9","3","8","0","d","6","b","b","e","f","a","8","b","3","8","c","a","6","1","6","0","8","9","b","6","4","0","d","4","f","f","5">> >>
  }

HexBytes(s) ==
  hex_decode(s).val

Sha256Values ==
  [b \in { HexBytes(p[1]) : p \in Sha256Table } |->
     HexBytes((CHOOSE p \in Sha256Table : HexBytes(p[1]) = b)[2])]

(* sha2::Sha256: new, update(bytes), finalize *)
Sha256(bytes) ==
  Sha256Values[bytes]

(* secp256k1: SecretKey::from_slice and PublicKey::from_secret_key *)
Secp256k1Table ==
  { <<Key1, PubKey1>>, <<Key2, PubKey2>>, <<Key3, PubKey3>> }

------------------------------------------------------------------------------
(* primitive_types::U256, as its 256 bits; bit k has the weight 2^k *)

U256Bits ==
  0 .. 255

U256_from_big_endian(bytes) ==
  [k \in U256Bits |-> (bytes[32 - (k \div 8)] \div (2 ^ (k % 8))) % 2]

U256_pow2(e) ==
  [k \in U256Bits |-> IF k = e THEN 1 ELSE 0]

U256_one ==
  [k \in U256Bits |-> IF k = 0 THEN 1 ELSE 0]

U256_bitand(a, b) ==
  [k \in U256Bits |-> a[k] * b[k]]

U256_ge(a, b) ==
  LET diff == { k \in U256Bits : a[k] # b[k] }
  IN  \/ diff = {}
      \/ a[CHOOSE k \in diff : \A j \in diff : j <= k] = 1

------------------------------------------------------------------------------
(* util::validation *)

AddressLen ==
  40

PrivateKeyLen ==
  64

is_address(s) ==
  /\ Len(s) = AddressLen
  /\ \A i \in DOMAIN s : is_ascii_hexdigit(s[i])

is_private_key(s) ==
  LET body == IF Len(s) >= 2 /\ s[1] = "0" /\ s[2] = "x"
                THEN SubSeq(s, 3, Len(s)) ELSE s
  IN  /\ Len(body) = PrivateKeyLen
      /\ \A i \in DOMAIN body : is_ascii_hexdigit(body[i])

------------------------------------------------------------------------------
(* crypto::util *)

(* mutant: the first two characters are cut off, prefix or not *)
normalize_private_key_cuts_two(private_key) ==
  IF ~ is_private_key(private_key) THEN Err("IncorrectPrivateKey", <<>>)
  ELSE Ok(SubSeq(to_lowercase(private_key), 3, Len(private_key)))

normalize_private_key(private_key) ==
  IF ~ is_private_key(private_key) THEN Err("IncorrectPrivateKey", <<>>)
  ELSE Ok(replace_0x(to_lowercase(private_key)))

get_pub_key_from_private_key(private_key) ==
  LET n == normalize_private_key(private_key)
  IN  IF ~ n.ok THEN n
      ELSE IF ~ hex_decode(n.val).ok THEN hex_decode(n.val)
      ELSE IF \E p \in Secp256k1Table : p[1] = n.val
             THEN Ok((CHOOSE p \in Secp256k1Table : p[1] = n.val)[2])
      ELSE Err("Secp256k1Error", "InvalidSecretKey")

(* mutant: four bits per character *)
BitExponent_per_nibble(i) ==
  255 - 4 * i

(* the exponent of line 55, for the character at the 0-based index i *)
BitExponent(i) ==
  255 - 6 * i

(* mutant: a character whose bit is clear keeps the case it came with *)
ChecksumChar_keeps_case(v, i, c) ==
  IF is_ascii_digit(c) THEN c
  ELSE LET cond == U256_ge(U256_bitand(v, U256_pow2(BitExponent(i))), U256_one)
       IN  IF cond THEN to_ascii_uppercase(c) ELSE c

(* the closure of lines 50-63 *)
ChecksumChar(v, i, c) ==
  IF is_ascii_digit(c) THEN c
  ELSE LET cond == U256_ge(U256_bitand(v, U256_pow2(BitExponent(i))), U256_one)
       IN  IF cond THEN to_ascii_uppercase(c) ELSE to_ascii_lowercase(c)

to_checksum_address(address) ==
  LET a == replace_0x(address)
  IN  IF ~ is_address(a) THEN Err("InvalidAddress", a)
      ELSE IF ~ hex_decode(a).ok THEN hex_decode(a)
      ELSE LET v   == U256_from_big_endian(Sha256(hex_decode(a).val))
               ret == [i \in 1 .. Len(a) |-> ChecksumChar(v, i - 1, a[i])]
           IN  Ok(<<"0", "x">> \o ret)

(* mutant: the characters are walked without the grammar check *)
checksum_exponents_unchecked(address) ==
  LET a == replace_0x(address)
  IN  { <<i - 1, BitExponent(i - 1)>> :
          i \in { j \in DOMAIN a : ~ is_ascii_digit(a[j]) } }

(* lines 39-56: the character indices for which the exponent 255 - 6 * i  *)
(* is computed, each with the exponent                                    *)
checksum_exponents(address) ==
  LET a == replace_0x(address)
  IN  IF ~ is_address(a) THEN {}
      ELSE { <<i - 1, BitExponent(i - 1)>> :
               i \in { j \in DOMAIN a : ~ is_ascii_digit(a[j]) } }

(* mutant: the comparison puts the 0x prefix on the argument first *)
is_valid_checksum_address_adds_prefix(address) ==
  LET r == to_checksum_address(address)
  IN  IF ~ r.ok THEN r ELSE Ok(r.val = With0x(replace_0x(address)))

(* mutant: the comparison ignores letter case *)
is_valid_checksum_address_ignore_case(address) ==
  LET r == to_checksum_address(address)
  IN  IF ~ r.ok THEN r ELSE Ok(to_lowercase(r.val) = to_lowercase(address))

is_valid_checksum_address(address) ==
  LET r == to_checksum_address(address)
  IN  IF ~ r.ok THEN r ELSE Ok(r.val = address)

(* mutant: the last 16 bytes of the digest are kept *)
get_address_from_public_key_last_16(public_key) ==
  LET normalized == replace_0x(to_lowercase(public_key))
      decoded    == hex_decode(normalized)
  IN  IF ~ decoded.ok THEN decoded
      ELSE LET digest == hex_encode(Sha256(decoded.val))
           IN  to_checksum_address(SubSeq(digest, 33, Len(digest)))

get_address_from_public_key(public_key) ==
  LET normalized == replace_0x(to_lowercase(public_key))
      decoded    == hex_decode(normalized)
  IN  IF ~ decoded.ok THEN decoded
      ELSE LET digest == hex_encode(Sha256(decoded.val))
           IN  to_checksum_address(SubSeq(digest, 25, Len(digest)))

GeneratedKeys ==
  { Key1, Key2, Key3 }

------------------------------------------------------------------------------
(* u64, as four 16-bit limbs, most significant first *)

U64Limb ==
  65536

U64(n) ==
  <<0, 0, 0, n>>

u64_default ==
  <<0, 0, 0, 0>>

u64_MAX ==
  <<U64Limb - 1, U64Limb - 1, U64Limb - 1, U64Limb - 1>>

RECURSIVE u64_inc_from(_, _)
u64_inc_from(n, i) ==
  IF i = 0 THEN n
  ELSE IF n[i] = U64Limb - 1 THEN u64_inc_from([n EXCEPT ![i] = 0], i - 1)
  ELSE [n EXCEPT ![i] = n[i] + 1]

u64_wrapping_add_one(n) ==
  u64_inc_from(n, 4)

(* `n + 1` on u64: a build with overflow checks panics where the result   *)
(* does not fit, a build without them wraps                               *)
u64_add_one(n) ==
  IF n = u64_MAX
    THEN { Err("panic", "attempt to add with overflow"),
           Ok(u64_wrapping_add_one(n)) }
    ELSE { Ok(u64_wrapping_add_one(n)) }

------------------------------------------------------------------------------
(* signers::Account and signers::Transaction *)

Account_new(private_key) ==
  LET public_key == get_pub_key_from_private_key(private_key)
  IN  IF ~ public_key.ok THEN public_key
      ELSE LET address == get_address_from_public_key(public_key.val)
           IN  IF ~ address.ok THEN address
               ELSE Ok([private_key |-> normalize_private_key(private_key).val,
                        public_key  |-> public_key.val,
                        address     |-> address.val])

Account_sign_transaction(acc, t) ==
  [t EXCEPT !.signature = Some([key |-> acc.private_key, nonce |-> t.nonce])]

Transaction(pub_key, nonce) ==
  [pub_key |-> pub_key, nonce |-> nonce, signature |-> None]

------------------------------------------------------------------------------
(* The arguments the operations are called with *)

ZeroKey ==
  [i \in 1 .. PrivateKeyLen |-> "0"]

RawKeyArgs ==
  { Key1, Key2, Key3, With0x(Key1), Upper(Key3), ZeroKey, <<"1", "2">> }

PubKeyArgs ==
  { PubKey1, PubKey2, PubKey3, PubKey4, With0x(Upper(PubKey1)),
    <<"0", "3", "b">>, <<"z", "z">> }

(* the derivations, computed once *)
NewAccount ==
  [k \in RawKeyArgs |-> Account_new(k)]

PubKeyAddress ==
  [k \in PubKeyArgs |-> get_address_from_public_key(k)]

AccountPool ==
  { NewAccount[k].val : k \in GeneratedKeys }

AddressArgs ==
  { a.address : a \in AccountPool }
    \cup { to_lowercase(NewAccount[Key1].val.address),
           PubKeyAddress[PubKey4].val }

TxNonces ==
  { u64_default, U64(1), U64(7), u64_MAX }

FetchedNonces ==
  { u64_default, U64(41), U64(U64Limb - 1), u64_MAX }

TxArgs ==
  { Transaction(pk, n) :
      pk \in {None} \cup { Some(k) : k \in PubKeyArgs }, n \in TxNonces }

(* longest list new_with_accounts is called with *)
MaxList ==
  2

RECURSIVE SeqsUpTo(_, _)
SeqsUpTo(S, n) ==
  IF n = 0 THEN { <<>> }
  ELSE LET shorter == SeqsUpTo(S, n - 1)
       IN  shorter \cup { Append(q, x) : q \in { r \in shorter : Len(r) = n - 1 },
                                          x \in S }

(* an Account value whose address is that of another account's keys: the *)
(* list is any Vec<Account>, and nothing in the wallet checks it          *)
ForeignAddressAccount ==
  [NewAccount[Key2].val EXCEPT !.address = NewAccount[Key1].val.address]

AccountLists ==
  SeqsUpTo(AccountPool \cup {ForeignAddressAccount}, MaxList)

------------------------------------------------------------------------------
(* signers::wallet::Wallet; w is [accounts, default_account] *)

EmptyMap ==
  [a \in {} |-> None]

HashMap_insert(m, k, v) ==
  [a \in DOMAIN m \cup {k} |-> IF a = k THEN v ELSE m[a]]

HashMap_remove(m, k) ==
  [a \in DOMAIN m \ {k} |-> m[a]]

HashMap_get(m, k) ==
  IF k \in DOMAIN m THEN Some(m[k]) ELSE None

(* collect::<HashMap<_, _>>() : a later pair replaces an earlier one *)
HashMap_collect(pairs) ==
  [a \in { pairs[i][1] : i \in DOMAIN pairs } |->
     LET last == CHOOSE i \in DOMAIN pairs :
                   /\ pairs[i][1] = a
                   /\ \A j \in DOMAIN pairs : pairs[j][1] = a => j <= i
     IN  pairs[last][2]]

new ==
  [default_account |-> None, accounts |-> EmptyMap]

(* mutant: the last account of the list becomes the default *)
new_with_accounts_last_default(list) ==
  [default_account |-> IF Len(list) # 0 THEN Some(list[Len(list)]) ELSE None,
   accounts        |-> HashMap_collect([i \in DOMAIN list |->
                                          <<list[i].address, list[i]>>])]

new_with_accounts(list) ==
  [default_account |-> IF Len(list) # 0 THEN Some(list[1]) ELSE None,
   accounts        |-> HashMap_collect([i \in DOMAIN list |->
                                          <<list[i].address, list[i]>>])]

(* mutant: the new account always becomes the default *)
add_by_private_key_always_default(w, private_key) ==
  LET acc == NewAccount[private_key]
  IN  IF ~ acc.ok THEN [w |-> w, ret |-> acc]
      ELSE [w   |-> [default_account |-> Some(acc.val),
                     accounts |->
                       HashMap_insert(w.accounts, acc.val.address, acc.val)],
            ret |-> Ok(acc.val.address)]

add_by_private_key(w, private_key) ==
  LET acc == NewAccount[private_key]
  IN  IF ~ acc.ok THEN [w |-> w, ret |-> acc]
      ELSE [w   |-> [default_account |->
                       IF is_none(w.default_account) THEN Some(acc.val)
                       ELSE w.default_account,
                     accounts |->
                       HashMap_insert(w.accounts, acc.val.address, acc.val)],
            ret |-> Ok(acc.val.address)]

(* mutant: the default is not cleared *)
remove_keeps_default(w, address) ==
  [w   |-> [default_account |-> w.default_account,
            accounts |-> HashMap_remove(w.accounts, address)],
   ret |-> HashMap_get(w.accounts, address)]

(* mutant: when the default is removed, a remaining account is promoted *)
remove_promotes(w, address) ==
  LET rest == HashMap_remove(w.accounts, address)
  IN  [w   |-> [default_account |->
                  IF is_some(w.default_account)
                     /\ unwrap(w.default_account).address = address
                    THEN IF DOMAIN rest = {} THEN None
                         ELSE Some(rest[CHOOSE a \in DOMAIN rest : TRUE])
                    ELSE w.default_account,
                accounts |-> rest],
       ret |-> HashMap_get(w.accounts, address)]

remove(w, address) ==
  [w   |-> [default_account |->
              IF is_some(w.default_account)
                 /\ unwrap(w.default_account).address = address
                THEN None ELSE w.default_account,
            accounts |-> HashMap_remove(w.accounts, address)],
   ret |-> HashMap_get(w.accounts, address)]

(* mutant: the default is assigned before the lookup is checked *)
set_default_assign_first(w, address) ==
  LET acc == HashMap_get(w.accounts, address)
  IN  IF is_none(acc)
        THEN [w   |-> [w EXCEPT !.default_account = None],
              ret |-> Err("AccountDoesNotExist", address)]
        ELSE [w   |-> [w EXCEPT !.default_account = Some(unwrap(acc))],
              ret |-> Ok(<<>>)]

set_default(w, address) ==
  LET acc == HashMap_get(w.accounts, address)
  IN  IF is_none(acc)
        THEN [w |-> w, ret |-> Err("AccountDoesNotExist", address)]
        ELSE [w   |-> [w EXCEPT !.default_account = Some(unwrap(acc))],
              ret |-> Ok(<<>>)]

(* mutant: a public key without an account falls back to the default *)
resolve_account_fallback(w, t) ==
  IF is_some(t.pub_key)
       /\ PubKeyAddress[unwrap(t.pub_key)].ok
       /\ is_some(HashMap_get(w.accounts, PubKeyAddress[unwrap(t.pub_key)].val))
    THEN Ok(w.accounts[PubKeyAddress[unwrap(t.pub_key)].val])
  ELSE IF is_some(t.pub_key) /\ ~ PubKeyAddress[unwrap(t.pub_key)].ok
    THEN PubKeyAddress[unwrap(t.pub_key)]
  ELSE IF is_some(w.default_account) THEN Ok(unwrap(w.default_account))
  ELSE IF is_some(t.pub_key)
    THEN Err("AccountDoesNotExist", PubKeyAddress[unwrap(t.pub_key)].val)
  ELSE Err("NeitherPubKeyNorDefaultAccountProvided", <<>>)

(* lines 100-107 of sign_transaction: which account signs *)
resolve_account(w, t) ==
  IF is_some(t.pub_key)
    THEN LET address == PubKeyAddress[unwrap(t.pub_key)]
         IN  IF ~ address.ok THEN address
             ELSE IF is_some(HashMap_get(w.accounts, address.val))
                    THEN Ok(w.accounts[address.val])
             ELSE Err("AccountDoesNotExist", address.val)
  ELSE IF is_some(w.default_account) THEN Ok(unwrap(w.default_account))
  ELSE Err("NeitherPubKeyNorDefaultAccountProvided", <<>>)

wallet ==
  [default_account |-> default_account, accounts |-> accounts]

(* Wallet::default_account, the accessor *)
Wallet_default_account(w) ==
  w.default_account

(* mutant: a failed fetch counts as nonce 0 *)
nonce_or_default(response) ==
  IF ~ response.ok THEN Ok(u64_default) ELSE Ok(response.val.nonce)

(* Wallet::nonce : the nonce field of the GetBalance response, or its error *)
nonce(response) ==
  IF ~ response.ok THEN response ELSE Ok(response.val.nonce)

------------------------------------------------------------------------------
(* What the provider may answer to GetBalance *)

BalanceResponse(n) ==
  [balance |-> <<"0">>, nonce |-> n]

ProviderResponses ==
  { Ok(BalanceResponse(n)) : n \in FetchedNonces }
    \cup { Err("TransportError", <<>>), Err("ParseError", <<>>) }

------------------------------------------------------------------------------
(* The wallet as a state machine.  call records the operation that runs   *)
(* or ran last: its name, its argument, the wallet before it, what it     *)
(* returned (None while it runs) and the calls it made to collaborators.  *)

Call(op, arg, pre, ret, events) ==
  [op |-> op, arg |-> arg, pre |-> pre, ret |-> ret, events |-> events]

Constructed(op, arg, w) ==
  /\ accounts = w.accounts
  /\ default_account = w.default_account
  /\ pc = "idle"
  /\ tx = None
  /\ account = None
  /\ call = Call(op, arg, new, Some(Ok(<<>>)), <<>>)

Init ==
  /\ \/ Constructed("new", <<>>, new)
     \/ \E list \in AccountLists :
          Constructed("new_with_accounts", list, new_with_accounts(list))
  /\ input = None
  /\ output = None

(* an operation taking &mut self, run to its end *)
Mutate(op, arg, r) ==
  /\ accounts' = r.w.accounts
  /\ default_account' = r.w.default_account
  /\ call' = Call(op, arg, wallet, Some(r.ret), <<>>)
  /\ UNCHANGED <<pc, tx, account, input, output>>

Create ==
  /\ pc = "idle"
  /\ \E private_key \in GeneratedKeys :
       Mutate("create", private_key, add_by_private_key(wallet, private_key))

AddByPrivateKey(private_key) ==
  /\ pc = "idle"
  /\ Mutate("add_by_private_key", private_key,
            add_by_private_key(wallet, private_key))

Remove(address) ==
  /\ pc = "idle"
  /\ Mutate("remove", address, remove(wallet, address))

SetDefault(address) ==
  /\ pc = "idle"
  /\ Mutate("set_default", address, set_default(wallet, address))

(* mutant: the nonce is fetched for every transaction *)
nonce_is_unset_always(t) ==
  TRUE

(* line 110: the nonce 0 stands for "not set" *)
nonce_is_unset(t) ==
  t.nonce = u64_default

(* mutant: the resolved account is remembered as the default *)
SharedBorrow_remembers_signer ==
  /\ accounts' = accounts
  /\ default_account' = IF is_some(account') THEN account' ELSE default_account
  /\ UNCHANGED <<input, output>>

(* sign_transaction takes &self: it cannot assign the wallet's fields *)
SharedBorrow ==
  UNCHANGED <<accounts, default_account, input, output>>

(* sign_transaction up to its first suspension point or its return *)
SignTransaction(t) ==
  /\ pc = "idle"
  /\ LET r == resolve_account(wallet, t)
     IN  IF ~ r.ok
           THEN /\ call' = Call("sign_transaction", t, wallet, Some(r), <<>>)
                /\ UNCHANGED <<pc, tx, account>>
         ELSE IF nonce_is_unset(t)
           THEN /\ pc' = "await_nonce"
                /\ tx' = Some(t)
                /\ account' = Some(r.val)
                /\ call' = Call("sign_transaction", t, wallet, None,
                                <<[e |-> "rpc_send", method |-> "GetBalance",
                                   address |-> r.val.address]>>)
         ELSE /\ call' = Call("sign_transaction", t, wallet,
                              Some(Ok(Account_sign_transaction(r.val, t))),
                              <<[e |-> "sign", account |-> r.val, tx |-> t]>>)
              /\ UNCHANGED <<pc, tx, account>>
  /\ SharedBorrow

(* sign_transaction from the provider's answer to its return *)
NonceResponse(response) ==
  /\ pc = "await_nonce"
  /\ LET fetched == nonce(response)
         recv    == Append(call.events, [e |-> "rpc_recv", response |-> response])
     IN  IF ~ fetched.ok
           THEN call' = [call EXCEPT !.ret = Some(fetched), !.events = recv]
         ELSE \E sum \in u64_add_one(fetched.val) :
                IF ~ sum.ok
                  THEN call' = [call EXCEPT !.ret = Some(sum), !.events = recv]
                ELSE LET t == [unwrap(tx) EXCEPT !.nonce = sum.val]
                     IN  call' = [call EXCEPT
                           !.ret = Some(Ok(Account_sign_transaction(unwrap(account), t))),
                           !.events = recv \o
                             << [e |-> "assign", nonce |-> sum.val],
                                [e |-> "sign", account |-> unwrap(account), tx |-> t] >>]
  /\ pc' = "idle"
  /\ tx' = None
  /\ account' = None
  /\ SharedBorrow

Next ==
  \/ Create
  \/ \E private_key \in RawKeyArgs : AddByPrivateKey(private_key)
  \/ \E address \in AddressArgs : Remove(address)
  \/ \E address \in AddressArgs : SetDefault(address)
  \/ \E t \in TxArgs : SignTransaction(t)
  \/ \E response \in ProviderResponses : NonceResponse(response)

Spec ==
  Init /\ [][Next]_vars

------------------------------------------------------------------------------
(* The functions of crypto::util applied to bounded sets of arguments *)

AddressBases ==
  { Base1, Base2, Base3, Base4, Base5, Base6, Base7 }

is_letter(c) ==
  c \in Range(LowerAlpha) \cup Range(UpperAlpha)

FlipCase(s, i) ==
  [s EXCEPT ![i] = IF s[i] \in Range(LowerAlpha) THEN to_ascii_uppercase(s[i])
                   ELSE to_ascii_lowercase(s[i])]

(* the same 20 bytes written in other letter cases, with and without 0x *)
CaseVariants(b) ==
  LET c       == to_checksum_address(b).val
      letters == { i \in 3 .. Len(c) : is_letter(c[i]) }
      flipped == { FlipCase(c, i) : i \in { j \in letters :
                     \/ \A k \in letters : j <= k
                     \/ \A k \in letters : j >= k } }
  IN  { b, Upper(b), c } \cup flipped

(* strings around the address grammar *)
MalformedVariants(b) ==
  { SubSeq(b, 1, Len(b) - 1),
    Append(b, "0"),
    [b EXCEPT ![5] = "z"],
    With0x(With0x(b)),
    b \o <<"0", "x">>,
    SubSeq(b, 1, 10) \o <<"0", "x">> \o SubSeq(b, 11, Len(b)),
    <<"0", "X">> \o b }

(* the wrongly cased address of the unit test of lines 112-117 *)
BadChecksumVector ==
  <<"0","x","1","1","2","2","3","3","4","4","5","5","6","6","7","7","8","8","9","9","0","0","A","a","b","b","c","c","d","D","E","E","f","F","1","1","2","2","3","3","4","4">>

AddressInputs ==
  UNION { LET cv == CaseVariants(b)
          IN  cv \cup { With0x(a) : a \in { x \in cv : Len(x) = AddressLen } }
                 \cup { SubSeq(a, 3, Len(a)) : a \in { x \in cv : Len(x) > AddressLen } }
                 \cup MalformedVariants(b)
          : b \in AddressBases }
    \cup { <<>>, BadChecksumVector }

PrivateKeyInputs ==
  RawKeyArgs \cup { Upper(With0x(Key2)), With0x(Upper(Key2)),
                    With0x(Upper(Key3)),
                    SubSeq(Key1, 1, 63), [Key1 EXCEPT ![7] = "z"] }

UtilInputs ==
  { [kind |-> "address", s |-> a] : a \in AddressInputs }
    \cup { [kind |-> "public_key", s |-> k] : k \in PubKeyArgs }
    \cup { [kind |-> "private_key", s |-> k] : k \in PrivateKeyInputs }

Applied(fn, ret) ==
  /\ output' = Some([fn |-> fn, ret |-> ret])
  /\ UNCHANGED <<input, accounts, default_account, pc, tx, account, call>>

InitUtil ==
  /\ Constructed("new", <<>>, new)
  /\ input \in UtilInputs
  /\ output = None

NormalizePrivateKey ==
  /\ input.kind = "private_key"
  /\ Applied("normalize_private_key", normalize_private_key(input.s))

GetPubKeyFromPrivateKey ==
  /\ input.kind = "private_key"
  /\ Applied("get_pub_key_from_private_key",
             get_pub_key_from_private_key(input.s))

GetAddressFromPublicKey ==
  /\ input.kind = "public_key"
  /\ Applied("get_address_from_public_key",
             get_address_from_public_key(input.s))

ToChecksumAddress ==
  /\ input.kind = "address"
  /\ Applied("to_checksum_address", to_checksum_address(input.s))

IsValidChecksumAddress ==
  /\ input.kind = "address"
  /\ Applied("is_valid_checksum_address", is_valid_checksum_address(input.s))

NextUtil ==
  \/ NormalizePrivateKey
  \/ GetPubKeyFromPrivateKey
  \/ GetAddressFromPublicKey
  \/ ToChecksumAddress
  \/ IsValidChecksumAddress

SpecUtil ==
  InitUtil /\ [][NextUtil]_vars

------------------------------------------------------------------------------
(* Properties of the wallet, checked under Spec *)

Returned(op) ==
  /\ call.op = op
  /\ is_some(call.ret)

Events(kind) ==
  { i \in DOMAIN call.events : call.events[i].e = kind }

(* every collaborator call of the running operation was made for acc, and *)
(* there was at least one                                                 *)
SignerUsed(acc) ==
  /\ call.events # <<>>
  /\ \A i \in Events("rpc_send") : call.events[i].address = acc.address
  /\ \A i \in Events("sign") : call.events[i].account = acc

(* C1: whenever the default account is set, its address is a key of the   *)
(* accounts map                                                           *)
C1_DefaultNeverDangling ==
  is_some(default_account) =>
    unwrap(default_account).address \in DOMAIN accounts

(* a remove of a non-default account that left the default in place *)
C1_Witness ==
  /\ Returned("remove")
  /\ is_some(unwrap(call.ret))
  /\ is_some(default_account)
  /\ unwrap(default_account).address # call.arg
  /\ unwrap(default_account).address \in DOMAIN accounts

(* C2: sign_transaction resolves the signer in strict order: a signer     *)
(* public key selects the account stored under its derived address and    *)
(* fails with AccountDoesNotExist(address) when there is none, whether or *)
(* not a default is set (a key with no derivable address fails with the   *)
(* derivation error, again without falling back); without a public key    *)
(* the default signs; without either the call fails with                  *)
(* NeitherPubKeyNorDefaultAccountProvided, whatever the map holds         *)
C2_ResolutionOrder ==
  call.op = "sign_transaction" =>
    LET t == call.arg
        w == call.pre
    IN  IF is_some(t.pub_key)
          THEN LET address == PubKeyAddress[unwrap(t.pub_key)]
               IN  IF ~ address.ok
                     THEN call.ret = Some(address) /\ call.events = <<>>
                   ELSE IF address.val \in DOMAIN w.accounts
                     THEN SignerUsed(w.accounts[address.val])
                   ELSE /\ call.ret = Some(Err("AccountDoesNotExist", address.val))
                        /\ call.events = <<>>
        ELSE IF is_some(w.default_account)
          THEN SignerUsed(unwrap(w.default_account))
        ELSE /\ call.ret = Some(Err("NeitherPubKeyNorDefaultAccountProvided", <<>>))
             /\ call.events = <<>>

(* a public key without an account was refused although a default was set *)
C2_Witness ==
  /\ Returned("sign_transaction")
  /\ is_some(call.arg.pub_key)
  /\ is_some(call.pre.default_account)
  /\ ~ unwrap(call.ret).ok
  /\ unwrap(call.ret).kind = "AccountDoesNotExist"
  /\ unwrap(call.ret).arg = PubKeyAddress[PubKey4].val

(* m = n + 1 over the naturals, on the limbs *)
IsSuccessor(m, n) ==
  \E i \in 1 .. 4 :
    /\ n[i] < U64Limb - 1
    /\ m[i] = n[i] + 1
    /\ \A j \in 1 .. 4 : j < i => m[j] = n[j]
    /\ \A j \in 1 .. 4 : j > i => n[j] = U64Limb - 1 /\ m[j] = 0

(* C3: the transaction handed to the signing capability by a successful   *)
(* sign_transaction carries the caller's nonce when that is not 0, and    *)
(* the nonce fetched for the resolved account plus one when it is 0       *)
C3_NonceHandedOver ==
  (Returned("sign_transaction") /\ unwrap(call.ret).ok) =>
    /\ Cardinality(Events("sign")) = 1
    /\ \A i \in Events("sign") :
         LET handed == call.events[i].tx
         IN  IF call.arg.nonce # u64_default
               THEN handed.nonce = call.arg.nonce
             ELSE /\ Cardinality(Events("rpc_recv")) = 1
                  /\ \A s \in Events("rpc_send") :
                       call.events[s].address = call.events[i].account.address
                  /\ \A r \in Events("rpc_recv") :
                       IsSuccessor(handed.nonce,
                                   call.events[r].response.val.nonce)

(* C4: sign_transaction leaves the accounts map and the default account  *)
(* as they were, while it runs and however it ends                        *)
C4_SignLeavesWalletUnchanged ==
  call.op = "sign_transaction" =>
    /\ accounts = call.pre.accounts
    /\ default_account = call.pre.default_account

(* a call that failed in the nonce fetch, on a wallet that holds accounts *)
C4_Witness ==
  /\ Returned("sign_transaction")
  /\ Events("rpc_recv") # {}
  /\ ~ unwrap(call.ret).ok
  /\ unwrap(call.ret).kind = "TransportError"
  /\ DOMAIN accounts # {}
  /\ is_some(default_account)

(* C5: when the provider's nonce fetch fails, sign_transaction returns    *)
(* that error, the signing capability is not invoked, no transaction is   *)
(* returned and the provider is not asked again                           *)
C5_FetchFailurePropagates ==
  call.op = "sign_transaction" =>
    \A r \in Events("rpc_recv") :
      ~ call.events[r].response.ok =>
        /\ call.ret = Some(call.events[r].response)
        /\ Events("sign") = {}
        /\ Cardinality(Events("rpc_send")) = 1
        /\ Cardinality(Events("rpc_recv")) = 1

(* the provider answered ParseError and the call ended with it *)
C5_Witness ==
  /\ Returned("sign_transaction")
  /\ \E r \in Events("rpc_recv") :
       call.events[r].response = Err("ParseError", <<>>)
  /\ unwrap(call.ret) = Err("ParseError", <<>>)

(* C6: a successful add_by_private_key or create makes the new account    *)
(* the default when no default was set, leaves the default alone when one *)
(* was, and in both cases stores the new account under its address        *)
C6_AddPromotesOnlyWithoutDefault ==
  ((Returned("add_by_private_key") \/ Returned("create"))
     /\ unwrap(call.ret).ok) =>
    LET acc == NewAccount[call.arg].val
    IN  /\ unwrap(call.ret).val = acc.address
        /\ acc.address \in DOMAIN accounts
        /\ accounts[acc.address] = acc
        /\ IF is_none(call.pre.default_account)
             THEN Wallet_default_account(wallet) = Some(acc)
             ELSE Wallet_default_account(wallet) = call.pre.default_account

(* an account added next to a different default, which stayed *)
C6_Witness ==
  /\ Returned("add_by_private_key")
  /\ unwrap(call.ret).ok
  /\ is_some(call.pre.default_account)
  /\ unwrap(call.pre.default_account).address # unwrap(call.ret).val
  /\ unwrap(call.ret).val \notin DOMAIN call.pre.accounts
  /\ default_account = call.pre.default_account

C7_RemoveResult ==
  call.op = "remove" =>
    LET address == call.arg
        w       == call.pre
    IN  /\ IF address \in DOMAIN w.accounts
             THEN /\ call.ret = Some(Some(w.accounts[address]))
                  /\ DOMAIN accounts = DOMAIN w.accounts \ {address}
                  /\ \A a \in DOMAIN accounts : accounts[a] = w.accounts[a]
             ELSE /\ call.ret = Some(None)
                  /\ accounts = w.accounts
        /\ IF is_some(w.default_account)
              /\ unwrap(w.default_account).address = address
             THEN Wallet_default_account(wallet) = None
             ELSE Wallet_default_account(wallet) = w.default_account

C7_NoPromotion ==
  (is_none(default_account) /\ is_some(default_account')) =>
    call'.op \in {"set_default", "add_by_private_key", "create"}

(* C7: remove returns the account stored at the address and deletes it,   *)
(* or returns none and leaves the map alone; it clears the default        *)
(* exactly when the address is the default's; and once the default is     *)
(* none it stays none until set_default, add_by_private_key or create     *)
C7_Remove ==
  [] C7_RemoveResult /\ [][C7_NoPromotion]_vars

(* the default was removed while another account stayed in the wallet *)
C7_Witness ==
  /\ Returned("remove")
  /\ is_some(call.pre.default_account)
  /\ unwrap(call.pre.default_account).address = call.arg
  /\ is_some(unwrap(call.ret))
  /\ DOMAIN accounts # {}
  /\ is_none(default_account)

(* C8: set_default on an address that is not a key fails with             *)
(* AccountDoesNotExist(address) and changes nothing; on a key it succeeds *)
(* and the default is the account stored under that address               *)
C8_SetDefault ==
  call.op = "set_default" =>
    LET address == call.arg
        w       == call.pre
    IN  IF address \notin DOMAIN w.accounts
          THEN /\ call.ret = Some(Err("AccountDoesNotExist", address))
               /\ wallet = w
          ELSE /\ call.ret = Some(Ok(<<>>))
               /\ Wallet_default_account(wallet) = Some(w.accounts[address])
               /\ accounts = w.accounts

(* set_default was refused on a wallet with a default, which stayed *)
C8_Witness ==
  /\ Returned("set_default")
  /\ ~ unwrap(call.ret).ok
  /\ is_some(call.pre.default_account)
  /\ default_account = call.pre.default_account
  /\ call.arg \notin DOMAIN accounts

(* C9: new_with_accounts makes the first account of the list the default  *)
(* (none for the empty list) and keys the map by the address of every     *)
(* account of the list; new gives an empty map and no default             *)
C9_Construction ==
  /\ call.op = "new_with_accounts" =>
       /\ IF Len(call.arg) # 0
            THEN Wallet_default_account(wallet) = Some(call.arg[1])
            ELSE Wallet_default_account(wallet) = None
       /\ \A i \in DOMAIN call.arg : call.arg[i].address \in DOMAIN accounts
       /\ \A a \in DOMAIN accounts :
            \E i \in DOMAIN call.arg : call.arg[i].address = a
  /\ call.op = "new" =>
       /\ DOMAIN accounts = {}
       /\ Wallet_default_account(wallet) = None

(* a wallet built from two different accounts *)
C9_Witness ==
  /\ call.op = "new_with_accounts"
  /\ Len(call.arg) >= 2
  /\ call.arg[1].address # call.arg[2].address
  /\ default_account = Some(call.arg[1])
  /\ Cardinality(DOMAIN accounts) >= 2

------------------------------------------------------------------------------
(* Properties of crypto::util, checked under SpecUtil *)

AppliedTo(fn, kind) ==
  /\ is_some(output)
  /\ unwrap(output).fn = fn
  /\ input.kind = kind

(* 40 hexadecimal characters, optionally after one leading 0x *)
HexString(s, n) ==
  /\ Len(s) = n
  /\ \A i \in DOMAIN s : is_ascii_hexdigit(s[i])

GrammarValidAddress(s) ==
  \/ HexString(s, 40)
  \/ /\ Len(s) = 42
     /\ SubSeq(s, 1, 2) = <<"0", "x">>
     /\ HexString(SubSeq(s, 3, 42), 40)

WithoutPrefix(s) ==
  IF Len(s) = 42 THEN SubSeq(s, 3, 42) ELSE s

(* bit k (of weight 2^k) of the big-endian 256-bit number in 32 bytes,    *)
(* read from the most significant end: it is bit 255 - k from the left    *)
DigestBit(bytes, k) ==
  LET fromLeft == 255 - k
      byte     == bytes[(fromLeft \div 8) + 1]
  IN  (byte \div (2 ^ (7 - (fromLeft % 8)))) % 2 = 1

(* C10: for a grammar-valid address, to_checksum_address returns 0x and   *)
(* 40 characters; character i is the input character if that is a digit, *)
(* its uppercase form if bit 255 - 6*i of the digest is set and its       *)
(* lowercase form if the bit is clear; the bytes denoted are unchanged    *)
C10_ChecksumCharacters ==
  (AppliedTo("to_checksum_address", "address") /\ GrammarValidAddress(input.s)) =>
    LET a   == WithoutPrefix(input.s)
        v   == Sha256(HexBytes(a))
        ret == unwrap(output).ret
    IN  /\ ret.ok
        /\ Len(ret.val) = 42
        /\ SubSeq(ret.val, 1, 2) = <<"0", "x">>
        /\ \A i \in 0 .. 39 :
             LET c == a[i + 1]
                 o == ret.val[i + 3]
             IN  IF c \in Range(Digits) THEN o = c
                 ELSE IF DigestBit(v, 255 - 6 * i)
                   THEN o \in Range(UpperHex) /\ to_ascii_lowercase(o) = to_ascii_lowercase(c)
                 ELSE o \in Range(LowerHex) /\ o = to_ascii_lowercase(c)
        /\ HexBytes(SubSeq(ret.val, 3, 42)) = HexBytes(a)

(* the vector of the unit test: 1122..ff11223344 is checksummed to        *)
(* 0x11223344556677889900AabbccdDeefF11223344                             *)
C10_Witness ==
  /\ AppliedTo("to_checksum_address", "address")
  /\ input.s = Base1
  /\ unwrap(output).ret.ok
  /\ SubSeq(unwrap(output).ret.val, 23, 34) =
       <<"A","a","b","b","c","c","d","D","e","e","f","F">>

(* C11: on a grammar-valid address, in any letter case and with or       *)
(* without 0x, to_checksum_address is idempotent on its output, its       *)
(* output is judged valid, and the result is the same for the lowercase   *)
(* and the uppercase spelling of the input                                *)
C11_ChecksumIdempotent ==
  (AppliedTo("to_checksum_address", "address") /\ GrammarValidAddress(input.s)) =>
    LET ret == unwrap(output).ret
    IN  /\ ret.ok
        /\ to_checksum_address(ret.val) = ret
        /\ is_valid_checksum_address(ret.val) = Ok(TRUE)
        /\ to_checksum_address(to_lowercase(WithoutPrefix(input.s))) = ret
        /\ to_checksum_address(Upper(WithoutPrefix(input.s))) = ret

(* the uppercase spelling of the unit test's address, checksummed to the  *)
(* test's mixed-case vector                                               *)
C11_Witness ==
  /\ AppliedTo("to_checksum_address", "address")
  /\ input.s = Upper(Base1)
  /\ unwrap(output).ret.ok
  /\ unwrap(output).ret.val # With0x(input.s)
  /\ unwrap(output).ret.val # With0x(Base1)
  /\ to_checksum_address(unwrap(output).ret.val) = unwrap(output).ret

LowercaseWithLetters(s) ==
  /\ GrammarValidAddress(s)
  /\ \A i \in DOMAIN WithoutPrefix(s) : WithoutPrefix(s)[i] \notin Range(UpperHex)
  /\ \E i \in DOMAIN WithoutPrefix(s) : WithoutPrefix(s)[i] \in Range(LowerHex)

(* C12 as stated: every all-lowercase address with a letter a-f is judged *)
(* invalid, whatever the digest                                           *)
C12_LowercaseAlwaysInvalid ==
  (AppliedTo("is_valid_checksum_address", "address")
     /\ LowercaseWithLetters(input.s)) =>
    unwrap(output).ret = Ok(FALSE)

(* C12, amended: an all-lowercase address with a letter a-f is judged     *)
(* valid exactly when it carries the 0x prefix and bit 255 - 6*i of the   *)
(* digest is clear at every index i that holds a letter; otherwise it is  *)
(* judged invalid                                                         *)
C12_LowercaseValidIffBitsClear ==
  (AppliedTo("is_valid_checksum_address", "address")
     /\ LowercaseWithLetters(input.s)) =>
    LET a == WithoutPrefix(input.s)
        v == Sha256(HexBytes(a))
    IN  unwrap(output).ret =
          Ok(/\ Len(input.s) = 42
             /\ \A i \in 0 .. 39 :
                  a[i + 1] \in Range(LowerHex) => ~ DigestBit(v, 255 - 6 * i))

(* 0xfcfc219c..., nine letters, all of them at clear bits: judged valid *)
C12_Witness ==
  /\ AppliedTo("is_valid_checksum_address", "address")
  /\ input.s = With0x(Base7)
  /\ LowercaseWithLetters(input.s)
  /\ unwrap(output).ret = Ok(TRUE)

(* the arguments that is_valid_checksum_address judges valid *)
ValidChecksummed ==
  { c \in AddressInputs : is_valid_checksum_address(c) = Ok(TRUE) }

(* s is c with the case of some of its hex letters changed *)
RecasedFrom(s, c) ==
  /\ Len(s) = Len(c)
  /\ s # c
  /\ \A i \in DOMAIN c :
       \/ s[i] = c[i]
       \/ /\ c[i] \in Range(LowerHex) \cup Range(UpperHex)
          /\ s[i] \in Range(LowerHex) \cup Range(UpperHex)
          /\ to_ascii_lowercase(s[i]) = to_ascii_lowercase(c[i])

(* C13: is_valid_checksum_address compares case-sensitively: an address   *)
(* obtained from a valid one by changing the case of hex letters is       *)
(* judged invalid, and no two valid addresses denote the same 20 bytes    *)
C13_CaseSensitive ==
  AppliedTo("is_valid_checksum_address", "address") =>
    /\ (\E c \in ValidChecksummed : RecasedFrom(input.s, c)) =>
         unwrap(output).ret = Ok(FALSE)
    /\ unwrap(output).ret = Ok(TRUE) =>
         \A c \in ValidChecksummed :
           HexBytes(WithoutPrefix(c)) = HexBytes(WithoutPrefix(input.s)) =>
             c = input.s

(* the unit test: 0x...dDEEfF... differs from the checksum 0x...dDeefF... *)
(* in the case of two letters and is judged invalid                       *)
C13_Witness ==
  /\ AppliedTo("is_valid_checksum_address", "address")
  /\ input.s = BadChecksumVector
  /\ RecasedFrom(input.s, to_checksum_address(Base1).val)
  /\ to_checksum_address(Base1).val \in ValidChecksummed
  /\ unwrap(output).ret = Ok(FALSE)

(* C14: to_checksum_address succeeds exactly on 40 hexadecimal characters *)
(* optionally preceded by one leading 0x and fails with InvalidAddress on *)
(* every other argument; is_valid_checksum_address fails the same way     *)
C14_SucceedsIffGrammar ==
  /\ AppliedTo("to_checksum_address", "address") =>
       IF GrammarValidAddress(input.s) THEN unwrap(output).ret.ok
       ELSE /\ ~ unwrap(output).ret.ok
            /\ unwrap(output).ret.kind = "InvalidAddress"
  /\ AppliedTo("is_valid_checksum_address", "address") =>
       IF GrammarValidAddress(input.s) THEN unwrap(output).ret.ok
       ELSE unwrap(output).ret = to_checksum_address(input.s)
            /\ ~ unwrap(output).ret.ok

DecodablePublicKey ==
  hex_decode(replace_0x(to_lowercase(input.s))).ok

PublicKeyDigest ==
  Sha256(hex_decode(replace_0x(to_lowercase(input.s))).val)

(* C15 as stated: the address is the checksum of the last 16 bytes (32    *)
(* hex characters) of the public key's digest                             *)
C15_Last16Bytes ==
  (AppliedTo("get_address_from_public_key", "public_key") /\ DecodablePublicKey) =>
    unwrap(output).ret =
      to_checksum_address(hex_encode(SubSeq(PublicKeyDigest, 17, 32)))

(* C15, amended: the address is the checksum of the last 20 bytes (40 hex *)
(* characters) of the public key's digest                                 *)
C15_Last20Bytes ==
  (AppliedTo("get_address_from_public_key", "public_key") /\ DecodablePublicKey) =>
    /\ unwrap(output).ret.ok
    /\ unwrap(output).ret =
         to_checksum_address(hex_encode(SubSeq(PublicKeyDigest, 13, 32)))
    /\ HexBytes(SubSeq(unwrap(output).ret.val, 3, 42)) =
         SubSeq(PublicKeyDigest, 13, 32)

(* the unit test of lines 119-125: 03bfad...e052 gives 0x381f...F796 *)
C15_Witness ==
  /\ AppliedTo("get_address_from_public_key", "public_key")
  /\ input.s = PubKey1
  /\ unwrap(output).ret =
       Ok(<<"0","x","3","8","1","f","4","0","0","8","5","0","5","e","9","4","0","A","D","7","6","8","1","E","C","3","4","6","8","a","7","1","9","0","6","0","c","a","F","7","9","6">>)

(* 64 hexadecimal characters in any letter case, with or without 0x *)
ValidRawKey(s) ==
  \/ HexString(s, 64)
  \/ /\ Len(s) = 66
     /\ SubSeq(s, 1, 2) = <<"0", "x">>
     /\ HexString(SubSeq(s, 3, 66), 64)

(* C16: on a valid raw key normalize_private_key succeeds with the 64     *)
(* lowercase characters of the key without prefix, and normalizing that   *)
(* result succeeds and returns it unchanged                               *)
C16_NormalizeIdempotent ==
  (AppliedTo("normalize_private_key", "private_key") /\ ValidRawKey(input.s)) =>
    LET ret  == unwrap(output).ret
        body == IF Len(input.s) = 66 THEN SubSeq(input.s, 3, 66) ELSE input.s
    IN  /\ ret.ok
        /\ Len(ret.val) = 64
        /\ \A i \in DOMAIN ret.val :
             ret.val[i] \in Range(Digits) \cup Range(LowerHex)
        /\ HexBytes(ret.val) = HexBytes(body)
        /\ normalize_private_key(ret.val) = ret

(* 0x and the uppercase spelling of a key are normalized to the key *)
C16_Witness ==
  /\ AppliedTo("normalize_private_key", "private_key")
  /\ input.s = With0x(Upper(Key3))
  /\ unwrap(output).ret = Ok(Key3)
  /\ normalize_private_key(Key3) = Ok(Key3)

------------------------------------------------------------------------------
(* Further properties of the wallet, checked under Spec *)

ResolutionFailed ==
  /\ is_some(call.ret)
  /\ ~ unwrap(call.ret).ok
  /\ unwrap(call.ret).kind \in
       {"AccountDoesNotExist", "NeitherPubKeyNorDefaultAccountProvided",
        "FromHexError"}

(* C17: one sign_transaction call asks the provider at most once, only    *)
(* after the signer was resolved and only for a transaction with nonce 0; *)
(* it does not ask when resolution fails or the nonce is not 0; and the   *)
(* signing capability is invoked only after a fetched nonce was assigned  *)
C17_CallOrder ==
  call.op = "sign_transaction" =>
    /\ Cardinality(Events("rpc_send")) <= 1
    /\ Cardinality(Events("rpc_recv")) <= Cardinality(Events("rpc_send"))
    /\ Cardinality(Events("sign")) <= 1
    /\ Events("rpc_send") # {} =>
         /\ resolve_account(call.pre, call.arg).ok
         /\ call.arg.nonce = u64_default
         /\ call.events[1].e = "rpc_send"
         /\ call.events[1].address = resolve_account(call.pre, call.arg).val.address
    /\ (ResolutionFailed \/ call.arg.nonce # u64_default) =>
         /\ Events("rpc_send") = {}
         /\ Events("rpc_recv") = {}
    /\ ResolutionFailed => Events("sign") = {}
    /\ \A s \in Events("sign") :
         IF call.arg.nonce # u64_default THEN call.events = <<call.events[s]>>
         ELSE /\ \E a \in Events("assign") : a < s
              /\ \A a \in Events("assign") :
                   /\ a < s
                   /\ call.events[s].tx.nonce = call.events[a].nonce
                   /\ \E r \in Events("rpc_recv") : r < a
              /\ \A r \in Events("rpc_recv") :
                   \E q \in Events("rpc_send") : q < r

(* a call that asked the provider, assigned the nonce and then signed *)
C17_Witness ==
  /\ Returned("sign_transaction")
  /\ unwrap(call.ret).ok
  /\ Len(call.events) = 4
  /\ call.events[1].e = "rpc_send"
  /\ call.events[2].e = "rpc_recv"
  /\ call.events[3].e = "assign"
  /\ call.events[4].e = "sign"

(* m > n on u64 *)
U64_gt(m, n) ==
  \E i \in 1 .. 4 :
    /\ m[i] > n[i]
    /\ \A j \in 1 .. 4 : j < i => m[j] = n[j]

(* C18: when sign_transaction fetches the nonce, the transaction it       *)
(* returns signed carries a nonce strictly greater than the fetched one,  *)
(* for every fetched nonce up to 2^64 - 1, and so never the nonce 0       *)
C18_NonceStrictlyGreater ==
  (Returned("sign_transaction") /\ unwrap(call.ret).ok
     /\ call.arg.nonce = u64_default) =>
    /\ unwrap(call.ret).val.nonce # u64_default
    /\ \A r \in Events("rpc_recv") :
         U64_gt(unwrap(call.ret).val.nonce, call.events[r].response.val.nonce)

------------------------------------------------------------------------------
(* A further property of crypto::util, checked under SpecUtil *)

(* C20: to_checksum_address computes the exponent 255 - 6*i only for an   *)
(* argument that passed the 40-character grammar check, so every exponent *)
(* computed lies in 21 .. 255: the subtraction does not underflow and the *)
(* bit tested lies within the 256-bit digest                              *)
C20_ExponentInRange ==
  AppliedTo("to_checksum_address", "address") =>
    /\ checksum_exponents(input.s) # {} => unwrap(output).ret.ok
    /\ \A p \in checksum_exponents(input.s) :
         /\ p[1] \in 0 .. 39
         /\ p[2] = 255 - 6 * p[1]
         /\ p[2] \in 21 .. 255
         /\ p[2] \in U256Bits

(* forty letters: the exponents 255 for the first and 21 for the last *)
C20_Witness ==
  /\ AppliedTo("to_checksum_address", "address")
  /\ input.s = Base3
  /\ unwrap(output).ret.ok
  /\ <<0, 255>> \in checksum_exponents(input.s)
  /\ <<39, 21>> \in checksum_exponents(input.s)

====
